---- MODULE Spec2Model ----
(***************************************************************************)
(* Availability store, aggregation and best-time-slot selection of         *)
(* scheduleit (src/lib/storage.ts), with the session-token ownership check *)
(* of saveAvailability, the read calls of the event page while saves       *)
(* commit, and the slot key codec of the grid components.                  *)
(*                                                                         *)
(* Strings whose characters the code inspects (slot keys, dates, times,    *)
(* participant names) are sequences of character codes, so that split,     *)
(* padStart, Number, string comparison and letter case are computed, not   *)
(* assumed.  Opaque identifiers (event ids, session tokens) are TLA+       *)
(* strings.                                                                *)
(***************************************************************************)
EXTENDS Integers, Sequences, FiniteSets, TLC

\* ------------------------------------------------------------------------
\* Bounds of the model
\* ------------------------------------------------------------------------
MaxSlots == 2       \* slot keys selected by one participant
MaxLimit == 3       \* the limit argument ranges over -MaxLimit..MaxLimit
MaxSaves == 2       \* saveAvailability calls started in one behaviour of Spec
MaxRateCalls == 4   \* checkRateLimit calls in one behaviour of SpecRate
MaxTime == 3        \* the clock of SpecRate runs over 0..MaxTime (ms)
MaxRateLimit == 2   \* the limit argument of checkRateLimit ranges over 0..MaxRateLimit
MaxTaps == 2        \* touch taps in one behaviour of SpecTouch

\* ------------------------------------------------------------------------
\* Strings as sequences of character codes
\* ------------------------------------------------------------------------
ChZero == 48
ChDash == 45
ChColon == 58
ChT == 84
NaN == 0 - 1                          \* not a number (every parsed number is >= 0)
Undefined == <<0>>                    \* a missing piece of a destructured split

Max(a, b) == IF a >= b THEN a ELSE b
Min(a, b) == IF a <= b THEN a ELSE b

SeqToSet(s) == { s[i] : i \in DOMAIN s }

IsDigits(s) == Len(s) > 0 /\ \A i \in DOMAIN s : s[i] \in ChZero..(ChZero + 9)

RECURSIVE DigitsValue(_)
DigitsValue(s) ==
  IF Len(s) = 0 THEN 0
  ELSE 10 * DigitsValue(SubSeq(s, 1, Len(s) - 1)) + (s[Len(s)] - ChZero)

\* Number(str) on the strings the code passes to it: decimal digits give their
\* value, the empty string 0, anything else NaN.
Number(s) == IF s = <<>> THEN 0 ELSE IF IsDigits(s) THEN DigitsValue(s) ELSE NaN

\* n.toString() for a non-negative integer (or NaN).
RECURSIVE numToString(_)
numToString(n) ==
  IF n = NaN THEN <<78, 97, 78>>
  ELSE IF n < 10 THEN <<ChZero + n>>
  ELSE numToString(n \div 10) \o <<ChZero + (n % 10)>>

\* s.padStart(2, '0')
PadStart2(s) ==
  IF Len(s) >= 2 THEN s
  ELSE [i \in 1..(2 - Len(s)) |-> ChZero] \o s

\* s.split(ch): the pieces of s between occurrences of ch, from the positions
\* of the separators (position 0 stands before s, Len(s) + 1 after it).
Split(s, ch) ==
  LET ends == { i \in DOMAIN s : s[i] = ch } \cup {Len(s) + 1}
      starts == { i \in DOMAIN s : s[i] = ch } \cup {0}
      nth(k) == CHOOSE p \in starts : Cardinality({ q \in starts : q < p }) = k - 1
      next(p) == CHOOSE q \in ends : q > p /\ \A r \in ends : r > p => q <= r
  IN [k \in 1..Cardinality(starts) |-> SubSeq(s, nth(k) + 1, next(nth(k)) - 1)]

\* a.localeCompare(b) for the strings compared here (same shape, digits and
\* fixed punctuation): -1, 0 or 1 by the first differing character, a proper
\* prefix first.
RECURSIVE CompareFrom(_, _, _)
CompareFrom(a, b, i) ==
  IF i > Len(a) /\ i > Len(b) THEN 0
  ELSE IF i > Len(a) THEN -1
  ELSE IF i > Len(b) THEN 1
  ELSE IF a[i] < b[i] THEN -1
  ELSE IF a[i] > b[i] THEN 1
  ELSE CompareFrom(a, b, i + 1)

localeCompare(a, b) == CompareFrom(a, b, 1)

\* Letter case of a name (ASCII letters).
toLowerCase(s) == [i \in DOMAIN s |-> IF s[i] \in 65..90 THEN s[i] + 32 ELSE s[i]]

\* ------------------------------------------------------------------------
\* Slot keys
\* ------------------------------------------------------------------------
\* format(date, "yyyy-MM-dd")
formatDate(d) ==
  LET y == numToString(d[1])
      y4 == [i \in 1..(4 - Len(y)) |-> ChZero] \o y
  IN y4 \o <<ChDash>> \o PadStart2(numToString(d[2])) \o <<ChDash>> \o PadStart2(numToString(d[3]))

timeStrUnpadded(hour, minute) == numToString(hour) \o <<ChColon>> \o numToString(minute)

timeStr(hour, minute) == PadStart2(numToString(hour)) \o <<ChColon>> \o PadStart2(numToString(minute))

getSlotKey(date, hour, minute) == formatDate(date) \o <<ChT>> \o timeStr(hour, minute)

\* getSlotKey of the heat map and of the scheduling grid (HeatMap.tsx), each
\* with its own dateStr and timeStr.
getSlotKeyHeatMap(date, hour, minute) ==
  LET dateStr == formatDate(date)
      timeString == PadStart2(numToString(hour)) \o <<ChColon>> \o PadStart2(numToString(minute))
  IN dateStr \o <<ChT>> \o timeString

getSlotKeySchedule(date, hour, minute) ==
  LET dateStr == formatDate(date)
      timeString == PadStart2(numToString(hour)) \o <<ChColon>> \o PadStart2(numToString(minute))
  IN dateStr \o <<ChT>> \o timeString

\* handleMouseEnter of the heat map: <<endHour, endMinute>> of a 30-minute slot.
slotEndHeatMap(hour, minute) ==
  LET endMinute == IF minute = 0 THEN 30 ELSE 0
      endHour == IF minute = 0 THEN hour ELSE hour + 1
  IN <<endHour, endMinute>>

\* The cells of the grid used by the model: <<date, hour, minute>>.
Date1 == <<2024, 1, 10>>
Date2 == <<2024, 1, 11>>
GridCells ==
  { <<Date1, 22, 30>>, <<Date1, 23, 0>>, <<Date1, 23, 30>>,
    <<Date2, 0, 0>>, <<Date2, 0, 30>> }

SlotKeys == { getSlotKey(c[1], c[2], c[3]) : c \in GridCells }

\* ------------------------------------------------------------------------
\* The availability table (supabase-schema.sql) and its reads
\* ------------------------------------------------------------------------
EventIds == {"e1", "e2"}
NoToken == "null"                     \* session_token NULL
SessionTokens == {"t1", "t2"}         \* values produced by getSessionToken

NameAlice == <<65, 108>>              \* "Al"
NameAliceLower == <<97, 108>>         \* "al"
NameBob == <<66, 111>>                \* "Bo"
Names == {NameAlice, NameAliceLower, NameBob}

\* A row of the availability table.  id is the key the database assigns when
\* the row is inserted; submitted_at is the time the submitting call was made.
DbAvailability(id, e, n, sl, tok, at) ==
  [id |-> id, event_id |-> e, participant_name |-> n, slots |-> sl,
   session_token |-> tok, submitted_at |-> at]

\* db row -> app record
dbAvailabilityToApp(db) ==
  [id |-> db.id, eventId |-> db.event_id, participantName |-> db.participant_name,
   slots |-> db.slots, submittedAt |-> db.submitted_at,
   sessionToken |-> db.session_token]

\* select('*').eq('event_id', eventId), mapped to app records.  The query has
\* no ORDER BY: rows come in storage order, which is the order of table.
getEventAvailability(tbl, eventId) ==
  LET rows == SelectSeq(tbl, LAMBDA r : r.event_id = eventId)
  IN [i \in DOMAIN rows |-> dbAvailabilityToApp(rows[i])]

\* select(..., {count: 'exact'}).eq('event_id', eventId)
getParticipantCount(tbl, eventId) ==
  Len(SelectSeq(tbl, LAMBDA r : r.event_id = eventId))

\* ------------------------------------------------------------------------
\* Aggregation: calculateGroupAvailability
\* ------------------------------------------------------------------------
\* GroupAvailability.slots is an object: here the sequence of its entries in
\* insertion order, each [key, count, participants].
HasSlot(slots, k) == \E i \in DOMAIN slots : slots[i].key = k
SlotIndex(slots, k) == CHOOSE i \in DOMAIN slots : slots[i].key = k
SlotEntry(slots, k) == slots[SlotIndex(slots, k)]

\* One iteration of the inner loop: create the entry if absent, count++, push.
AddSlotBadCount(slots, slotKey, name) ==
  LET s1 == IF HasSlot(slots, slotKey) THEN slots
            ELSE Append(slots, [key |-> slotKey, count |-> 1, participants |-> <<>>])
      i == SlotIndex(s1, slotKey)
  IN [s1 EXCEPT ![i].count = @ + 1, ![i].participants = Append(@, name)]

AddSlotUnshifts(slots, slotKey, name) ==
  LET s1 == IF HasSlot(slots, slotKey) THEN slots
            ELSE Append(slots, [key |-> slotKey, count |-> 0, participants |-> <<>>])
      i == SlotIndex(s1, slotKey)
  IN [s1 EXCEPT ![i].count = @ + 1, ![i].participants = <<name>> \o @]

AddSlotOverwrites(slots, slotKey, name) ==
  LET s1 == IF HasSlot(slots, slotKey) THEN slots
            ELSE Append(slots, [key |-> slotKey, count |-> 0, participants |-> <<>>])
      i == SlotIndex(s1, slotKey)
  IN [s1 EXCEPT ![i].count = @ + 1, ![i].participants = <<name>>]

AddSlot(slots, slotKey, name) ==
  LET s1 == IF HasSlot(slots, slotKey) THEN slots
            ELSE Append(slots, [key |-> slotKey, count |-> 0, participants |-> <<>>])
      i == SlotIndex(s1, slotKey)
  IN [s1 EXCEPT ![i].count = @ + 1, ![i].participants = Append(@, name)]

RECURSIVE AddSlots(_, _, _, _)
AddSlots(slots, keys, j, name) ==
  IF j > Len(keys) THEN slots
  ELSE AddSlots(AddSlot(slots, keys[j], name), keys, j + 1, name)

RECURSIVE AggregateFrom(_, _, _)
AggregateFrom(slots, availabilities, i) ==
  IF i > Len(availabilities) THEN slots
  ELSE AggregateFrom(
         AddSlots(slots, availabilities[i].slots, 1, availabilities[i].participantName),
         availabilities, i + 1)

\* The loop of calculateGroupAvailability over the records read from the store.
Aggregate(availabilities) == AggregateFrom(<<>>, availabilities, 1)

calculateGroupAvailability(tbl, eventId) == Aggregate(getEventAvailability(tbl, eventId))

\* ------------------------------------------------------------------------
\* Block finding: findBestTimeSlots
\* ------------------------------------------------------------------------
DefaultLimit == 3

\* array.slice(0, end)
Slice0(s, end) ==
  LET e == IF end < 0 THEN Max(Len(s) + end, 0) ELSE Min(end, Len(s))
  IN SubSeq(s, 1, e)

Piece(parts, i) == IF i <= Len(parts) THEN parts[i] ELSE Undefined

\* slotsByDate: the sequence, in insertion order, of [date, slots], slots the
\* sequence of {time, count, participants} pushed for that date.
HasDate(byDate, d) == \E i \in DOMAIN byDate : byDate[i].date = d
DateIndex(byDate, d) == CHOOSE i \in DOMAIN byDate : byDate[i].date = d

RECURSIVE GroupByDateFromOneGroup(_, _, _)
GroupByDateFromOneGroup(byDate, entries, i) ==
  IF i > Len(entries) THEN byDate
  ELSE LET parts == Split(entries[i].key, ChT)
           date == Piece(parts, 1)
           time == Piece(parts, 2)
           b1 == IF byDate # <<>> THEN byDate
                 ELSE Append(byDate, [date |-> date, slots |-> <<>>])
           b2 == [b1 EXCEPT ![1].slots =
                    Append(@, [time |-> time, count |-> entries[i].count,
                               participants |-> entries[i].participants])]
       IN GroupByDateFromOneGroup(b2, entries, i + 1)

RECURSIVE GroupByDateFrom(_, _, _)
GroupByDateFrom(byDate, entries, i) ==
  IF i > Len(entries) THEN byDate
  ELSE LET parts == Split(entries[i].key, ChT)
           date == Piece(parts, 1)
           time == Piece(parts, 2)
           b1 == IF HasDate(byDate, date) THEN byDate
                 ELSE Append(byDate, [date |-> date, slots |-> <<>>])
           k == DateIndex(b1, date)
           b2 == [b1 EXCEPT ![k].slots =
                    Append(@, [time |-> time, count |-> entries[i].count,
                               participants |-> entries[i].participants])]
       IN GroupByDateFrom(b2, entries, i + 1)

GroupByDate(entries) == GroupByDateFrom(<<>>, entries, 1)

\* slots.sort((a, b) => a.time.localeCompare(b.time)).  Array.prototype.sort
\* with a consistent comparator is the stable sort: each element comes after
\* those that compare before it and after the equal ones that precede it.
SortSlots(slots) ==
  LET pos(i) == 1 + Cardinality({ j \in DOMAIN slots :
                      \/ localeCompare(slots[j].time, slots[i].time) < 0
                      \/ (localeCompare(slots[j].time, slots[i].time) = 0 /\ j < i) })
  IN [p \in DOMAIN slots |-> slots[CHOOSE i \in DOMAIN slots : pos(i) = p]]

SortByTime(byDate) ==
  [k \in DOMAIN byDate |-> [byDate[k] EXCEPT !.slots = SortSlots(@)]]

getSlotEndTimeNoCarry(startTime) ==
  LET parts == Split(startTime, ChColon)
      hour == Number(Piece(parts, 1))
      minute == Number(Piece(parts, 2))
      endMinute == IF minute = 0 THEN 30 ELSE 0
  IN PadStart2(numToString(hour)) \o <<ChColon>> \o PadStart2(numToString(endMinute))

getSlotEndTimeWraps(startTime) ==
  LET parts == Split(startTime, ChColon)
      hour == Number(Piece(parts, 1))
      minute == Number(Piece(parts, 2))
      endMinute == IF minute = 0 THEN 30 ELSE 0
      endHour == IF minute = 0 THEN hour ELSE (hour + 1) % 24
  IN PadStart2(numToString(endHour)) \o <<ChColon>> \o PadStart2(numToString(endMinute))

getSlotEndTime(startTime) ==
  LET parts == Split(startTime, ChColon)
      hour == Number(Piece(parts, 1))
      minute == Number(Piece(parts, 2))
      endMinute == IF minute = 0 THEN 30 ELSE 0
      endHour == IF minute = 0 THEN hour ELSE IF hour = NaN THEN NaN ELSE hour + 1
  IN PadStart2(numToString(endHour)) \o <<ChColon>> \o PadStart2(numToString(endMinute))

Intersect(blockParticipants, slotParticipants) ==
  SelectSeq(blockParticipants, LAMBDA p : p \in SeqToSet(slotParticipants))

NoBlock == [open |-> FALSE]

OpenBlock(slot) ==
  [open |-> TRUE, startTime |-> slot.time, endTime |-> getSlotEndTime(slot.time),
   count |-> slot.count, participants |-> slot.participants]

CloseBlock(date, cur) ==
  [date |-> date, startTime |-> cur.startTime, endTime |-> cur.endTime,
   count |-> cur.count, participants |-> cur.participants]

\* The merge test of the scan.
MergesAdjacentOnly(cur, slot) == slot.time = cur.endTime

MergesAtStartTime(cur, slot) == slot.time = cur.startTime /\ slot.count = cur.count

Merges(cur, slot) == slot.time = cur.endTime /\ slot.count = cur.count

\* The scan over one date's sorted slots, from slot i with current block cur.
RECURSIVE ScanFrom(_, _, _, _, _)
ScanFrom(date, slots, i, cur, blocks) ==
  IF i > Len(slots)
  THEN IF cur.open THEN Append(blocks, CloseBlock(date, cur)) ELSE blocks
  ELSE LET slot == slots[i] IN
       IF cur.open
       THEN IF Merges(cur, slot)
            THEN ScanFrom(date, slots, i + 1,
                   [cur EXCEPT !.endTime = getSlotEndTime(slot.time),
                               !.participants = Intersect(@, slot.participants)],
                   blocks)
            ELSE ScanFrom(date, slots, i + 1, OpenBlock(slot),
                          Append(blocks, CloseBlock(date, cur)))
       ELSE ScanFrom(date, slots, i + 1, OpenBlock(slot), blocks)

RECURSIVE ScanDatesFrom(_, _, _)
ScanDatesFrom(byDate, k, blocks) ==
  IF k > Len(byDate) THEN blocks
  ELSE ScanDatesFrom(byDate, k + 1,
         ScanFrom(byDate[k].date, byDate[k].slots, 1, NoBlock, blocks))

\* blocks, in the order the code pushes them
FindBlocks(entries) == ScanDatesFrom(SortByTime(GroupByDate(entries)), 1, <<>>)

Minutes(time) ==
  LET parts == Split(time, ChColon)
  IN Number(Piece(parts, 1)) * 60 + Number(Piece(parts, 2))

Duration(block) == Minutes(block.endTime) - Minutes(block.startTime)

WithDuration(blocks) ==
  [i \in DOMAIN blocks |->
     [date |-> blocks[i].date, startTime |-> blocks[i].startTime,
      endTime |-> blocks[i].endTime, count |-> blocks[i].count,
      participants |-> blocks[i].participants, duration |-> Duration(blocks[i])]]

\* The comparator of the ranking sort.
CompareBlocksDateFirst(a, b) ==
  IF b.count # a.count THEN b.count - a.count
  ELSE IF a.date # b.date THEN localeCompare(a.date, b.date)
  ELSE IF b.duration # a.duration THEN b.duration - a.duration
  ELSE localeCompare(a.startTime, b.startTime)

CompareBlocks(a, b) ==
  IF b.count # a.count THEN b.count - a.count
  ELSE IF b.duration # a.duration THEN b.duration - a.duration
  ELSE IF a.date # b.date THEN localeCompare(a.date, b.date)
  ELSE localeCompare(a.startTime, b.startTime)

\* blocksWithDuration.sort(comparator): the stable sort, as in SortSlots.
RankBlocks(blocks) ==
  LET s == WithDuration(blocks)
      pos(i) == 1 + Cardinality({ j \in DOMAIN s :
                      \/ CompareBlocks(s[j], s[i]) < 0
                      \/ (CompareBlocks(s[j], s[i]) = 0 /\ j < i) })
  IN [p \in DOMAIN s |-> s[CHOOSE i \in DOMAIN s : pos(i) = p]]

WithoutDuration(ranked) ==
  [i \in DOMAIN ranked |->
     [date |-> ranked[i].date, startTime |-> ranked[i].startTime,
      endTime |-> ranked[i].endTime, count |-> ranked[i].count,
      participants |-> ranked[i].participants]]

\* What findBestTimeSlots returns from the aggregate read first, the number of
\* records read second, and limit.
\* Line 200 and lines 203-301: the local blocksWithDuration after its sort, from
\* the aggregate read first and the number of records read second (the early
\* return builds no block).
RankedBlocks(entries, totalParticipants) ==
  IF totalParticipants = 0 THEN <<>> ELSE RankBlocks(FindBlocks(entries))

\* Line 200 and line 304: what the call returns.  error tells whether it threw.
ReturnedBlocksThrowsOnNone(totalParticipants, ranked, limit) ==
  IF totalParticipants = 0 THEN [error |-> "NoParticipants", result |-> <<>>]
  ELSE [error |-> "none", result |-> WithoutDuration(Slice0(ranked, limit))]

ReturnedBlocks(totalParticipants, ranked, limit) ==
  IF totalParticipants = 0 THEN [error |-> "none", result |-> <<>>]
  ELSE [error |-> "none", result |-> WithoutDuration(Slice0(ranked, limit))]

\* ------------------------------------------------------------------------
\* State
\* ------------------------------------------------------------------------
VARIABLES
  table,       \* the availability table: sequence of rows, in storage order
  saves,       \* saveAvailability calls between their select and their upsert
  started,     \* number of saveAvailability calls started (the clock of submittedAt)
  lastReturn,  \* what the saveAvailability call that returned last returned
  group,       \* the calculateGroupAvailability call
  findBest,    \* the findBestTimeSlots call
  grid,        \* the cells the grid components compute keys and slot ends for
  rate,        \* the rate limiter: rateLimitMap, the clock, the calls made
  touch,       \* the selection grid under touch and mouse events
  page,        \* the event page: selection, save button, displayed group data
  dialog,      \* the ScheduleMeeting dialog
  wizard       \* the create-event wizard

\* The variables of the store and of its read calls, and those of the
\* components of the pages.
storeVars == <<table, saves, started, lastReturn, group, findBest>>
uiVars == <<rate, touch, page, dialog, wizard>>

vars == <<table, saves, started, lastReturn, group, findBest, grid,
          rate, touch, page, dialog, wizard>>

Null == [isNull |-> TRUE]

IdleGroup == [pc |-> "idle"]
IdleFindBest == [pc |-> "idle"]
IdleGrid == [pc |-> "idle"]
IdleRate == [pc |-> "idle"]
IdleTouch == [pc |-> "idle"]
IdlePage == [pc |-> "idle"]
IdleDialog == [pc |-> "idle"]
IdleWizard == [pc |-> "idle"]

\* No component of the pages is mounted.
UiIdle ==
  /\ rate = IdleRate
  /\ touch = IdleTouch
  /\ page = IdlePage
  /\ dialog = IdleDialog
  /\ wizard = IdleWizard
NoReturn == [error |-> "none", data |-> Null]

ErrNameTaken == "This name is already taken. Please use a different name."
ErrSaveFailed == "Failed to save availability"

\* ------------------------------------------------------------------------
\* saveAvailability
\* ------------------------------------------------------------------------
RowMatches(r, e, n) == r.event_id = e /\ r.participant_name = n

\* select('session_token').eq(event_id).eq(participant_name).single():
\* the row if exactly one matches, otherwise no data.
SelectExisting(tbl, e, n) ==
  LET hits == SelectSeq(tbl, LAMBDA r : RowMatches(r, e, n))
  IN IF Len(hits) = 1 THEN hits[1] ELSE Null

\* existing?.session_token && existing.session_token !== sessionToken
OwnedByOther(existing, sessionToken) ==
  /\ existing # Null
  /\ existing.session_token # NoToken
  /\ existing.session_token # sessionToken

\* upsert(..., {onConflict: 'event_id,participant_name'}): the row with the same
\* (event_id, participant_name) is updated in place, otherwise the row is added.
\* The columns of the payload are written; id keeps the value of the insert.
UpsertAlwaysInserts(tbl, row) == Append(tbl, row)

Upsert(tbl, row) ==
  IF \E i \in DOMAIN tbl : RowMatches(tbl[i], row.event_id, row.participant_name)
  THEN [i \in DOMAIN tbl |->
          IF RowMatches(tbl[i], row.event_id, row.participant_name)
          THEN [tbl[i] EXCEPT !.slots = row.slots,
                              !.session_token = row.session_token,
                              !.submitted_at = row.submitted_at]
          ELSE tbl[i]]
  ELSE Append(tbl, row)

\* The row the upsert returns (.select().single()).
UpsertedRow(tbl, row) ==
  LET i == CHOOSE i \in DOMAIN tbl : RowMatches(tbl[i], row.event_id, row.participant_name)
  IN tbl[i]

\* Slot arrays a page can submit: Array.from(selectedSlots).
SaveSlotChoices ==
  { <<getSlotKey(Date1, 23, 0)>>,
    <<getSlotKey(Date2, 0, 0), getSlotKey(Date1, 23, 0)>> }

TokenArgs == SessionTokens \cup {NoToken}     \* NoToken: no token passed

\* Lines 99-113: the select and the ownership check.  A refused call returns;
\* any other call goes on to its upsert.
SaveCheck(e, n, sl, tok) ==
  /\ started < MaxSaves
  /\ started' = started + 1
  /\ LET existing == SelectExisting(table, e, n)
         availability == DbAvailability(started + 1, e, n, sl, tok, started + 1)
     IN IF OwnedByOther(existing, tok)
        THEN /\ lastReturn' = [error |-> ErrNameTaken, data |-> Null]
             /\ saves' = saves
        ELSE /\ saves' = saves \cup {availability}
             /\ lastReturn' = lastReturn
  /\ UNCHANGED <<table, group, findBest, grid, uiVars>>

\* Lines 115-138: the upsert, and the row returned.
SaveUpsert(c) ==
  /\ c \in saves
  /\ table' = Upsert(table, c)
  /\ saves' = saves \ {c}
  /\ lastReturn' = [error |-> "none", data |-> dbAvailabilityToApp(UpsertedRow(table', c))]
  /\ UNCHANGED <<started, group, findBest, grid, uiVars>>

\* Lines 133-136: the upsert reports an error.
SaveUpsertFails(c) ==
  /\ c \in saves
  /\ saves' = saves \ {c}
  /\ lastReturn' = [error |-> ErrSaveFailed, data |-> Null]
  /\ UNCHANGED <<table, started, group, findBest, grid, uiVars>>

\* ------------------------------------------------------------------------
\* calculateGroupAvailability and findBestTimeSlots as calls
\* ------------------------------------------------------------------------
Limits == (0 - MaxLimit)..MaxLimit

\* calculateGroupAvailability(eventId): one read, then the loop over a result
\* that starts as { slots: {} } in every call.
CalculateGroupOntoPrevious(e) ==
  /\ group' = [pc |-> "done", eventId |-> e,
               availabilities |-> getEventAvailability(table, e),
               slots |-> AggregateFrom(IF group.pc = "done" THEN group.slots ELSE <<>>,
                                       getEventAvailability(table, e), 1)]
  /\ UNCHANGED <<table, saves, started, lastReturn, findBest, grid, uiVars>>

CalculateGroup(e) ==
  /\ group' = [pc |-> "done", eventId |-> e,
               availabilities |-> getEventAvailability(table, e),
               slots |-> calculateGroupAvailability(table, e)]
  /\ UNCHANGED <<table, saves, started, lastReturn, findBest, grid, uiVars>>

\* findBestTimeSlots, line 196: await calculateGroupAvailability(eventId).
\* aggregated is the list of records that call read (line 177), availabilities
\* the list read at line 197.
FindBestAggregate(e) ==
  /\ findBest.pc = "idle"
  /\ findBest' = [pc |-> "aggregated", eventId |-> e,
                  aggregated |-> getEventAvailability(table, e),
                  groupAvailability |-> calculateGroupAvailability(table, e)]
  /\ UNCHANGED <<table, saves, started, lastReturn, group, grid, uiVars>>

\* findBestTimeSlots, lines 197-301: the second read, the early return test and
\* the ranked blocks.  The call touches the store no more after this step.
FindBestRank ==
  /\ findBest.pc = "aggregated"
  /\ LET availabilities == getEventAvailability(table, findBest.eventId)
         totalParticipants == Len(availabilities)
     IN findBest' = [pc |-> "ranked", eventId |-> findBest.eventId,
                     aggregated |-> findBest.aggregated,
                     groupAvailability |-> findBest.groupAvailability,
                     availabilities |-> availabilities,
                     totalParticipants |-> totalParticipants,
                     ranked |-> RankedBlocks(findBest.groupAvailability,
                                             totalParticipants)]
  /\ UNCHANGED <<table, saves, started, lastReturn, group, grid, uiVars>>

\* findBestTimeSlots, lines 200 and 304: the value returned, for the limit the
\* call was made with (limit is read nowhere before).
FindBestReturn(limit) ==
  /\ findBest.pc = "ranked"
  /\ LET ret == ReturnedBlocks(findBest.totalParticipants, findBest.ranked, limit)
     IN findBest' = [pc |-> "done", eventId |-> findBest.eventId,
                     limit |-> limit,
                     aggregated |-> findBest.aggregated,
                     groupAvailability |-> findBest.groupAvailability,
                     availabilities |-> findBest.availabilities,
                     totalParticipants |-> findBest.totalParticipants,
                     ranked |-> findBest.ranked,
                     error |-> ret.error, result |-> ret.result]
  /\ UNCHANGED <<table, saves, started, lastReturn, group, grid, uiVars>>

\* ------------------------------------------------------------------------
\* Specifications
\* ------------------------------------------------------------------------
Init ==
  /\ table = <<>>
  /\ saves = {}
  /\ started = 0
  /\ lastReturn = NoReturn
  /\ group = IdleGroup
  /\ findBest = IdleFindBest
  /\ grid = IdleGrid
  /\ UiIdle

SaveCheckAny ==
  \E e \in EventIds, n \in Names, sl \in SaveSlotChoices, tok \in TokenArgs :
    SaveCheck(e, n, sl, tok)
SaveUpsertAny == \E c \in saves : SaveUpsert(c)
SaveUpsertFailsAny == \E c \in saves : SaveUpsertFails(c)

Next ==
  \/ SaveCheckAny
  \/ SaveUpsertAny
  \/ SaveUpsertFailsAny

Spec == Init /\ [][Next]_vars

\* The pure functions over bounded inputs: the table is any list of up to
\* three records of event e1 with distinct names, each with at most MaxSlots
\* distinct slot keys of the grid, and no save runs.
NameOrder == <<NameAlice, NameBob, NameAliceLower>>
CoreEvent == "e1"

\* Slot arrays are taken in ascending key order; the order of the keys in the
\* aggregate still varies, since it follows the records that bring them.
IsAscending(sl) == \A i \in 1..(Len(sl) - 1) : localeCompare(sl[i], sl[i + 1]) < 0

SlotArrays ==
  { sl \in UNION { [1..n -> SlotKeys] : n \in 0..MaxSlots } : IsAscending(sl) }

CoreTables ==
  UNION { { [i \in 1..n |-> DbAvailability(i, CoreEvent, NameOrder[i], f[i], "t1", i)] :
              f \in [1..n -> SlotArrays] } : n \in 0..Len(NameOrder) }

InitCore ==
  /\ table \in CoreTables
  /\ saves = {}
  /\ started = 0
  /\ lastReturn = NoReturn
  /\ group = IdleGroup
  /\ findBest = IdleFindBest
  /\ grid = IdleGrid
  /\ UiIdle

CalculateGroupCore ==
  \E e \in EventIds : group.pc = "idle" /\ findBest.pc = "idle" /\ CalculateGroup(e)
FindBestAggregateCore == group.pc = "idle" /\ FindBestAggregate(CoreEvent)
FindBestReturnAny == \E limit \in Limits \cup {DefaultLimit} : FindBestReturn(limit)

NextCore ==
  \/ CalculateGroupCore
  \/ FindBestAggregateCore
  \/ FindBestRank
  \/ FindBestReturnAny

SpecCore == InitCore /\ [][NextCore]_vars

\* Rows as the store can hold them: slots is TEXT[], written by whoever can
\* reach the table, and neither saveAvailability nor dbAvailabilityToApp looks
\* at the keys.  Next to two keys of the grid, the stored keys are one whose
\* minute is not on the half-hour grid and one whose hour is not zero-padded
\* (both still have the 'T' and the ':' the code splits at).
KeyQuarterPast == formatDate(Date1) \o <<ChT>> \o timeStr(23, 15)        \* "2024-01-10T23:15"
KeyShortHour == formatDate(Date1) \o <<ChT, ChZero + 9, ChColon, ChZero, ChZero>>  \* "2024-01-10T9:00"
StoredKeys ==
  { getSlotKey(Date1, 23, 0), getSlotKey(Date2, 0, 0), KeyQuarterPast, KeyShortHour }

StoredSlotArrays ==
  { sl \in UNION { [1..n -> StoredKeys] : n \in 1..MaxSlots } : IsAscending(sl) }

StoredTables ==
  UNION { { [i \in 1..n |-> DbAvailability(i, CoreEvent, NameOrder[i], f[i], "t1", i)] :
              f \in [1..n -> StoredSlotArrays] } : n \in 1..2 }

InitStored ==
  /\ table \in StoredTables
  /\ saves = {}
  /\ started = 0
  /\ lastReturn = NoReturn
  /\ group = IdleGroup
  /\ findBest = IdleFindBest
  /\ grid = IdleGrid
  /\ UiIdle

SpecStored == InitStored /\ [][NextCore]_vars

\* The slot key codec over the cells of the grids: two cells a and b are
\* rendered by the time grid, the heat map and the scheduling grid, their keys
\* are compared the way the sorts of findBestTimeSlots compare, and the end of
\* slot a is computed by getSlotEndTime and by the heat map.
CodecDates ==
  { <<2023, 12, 31>>, <<2024, 1, 10>>, <<2024, 1, 11>>, <<2024, 9, 30>>, <<2024, 10, 9>> }
CodecHours == 0..23
SlotMinutes == {0, 30}
CellsA == CodecDates \X CodecHours \X SlotMinutes
CellsB == CodecDates \X {0, 9, 10, 23} \X SlotMinutes

InitCodec ==
  /\ table = <<>>
  /\ saves = {}
  /\ started = 0
  /\ lastReturn = NoReturn
  /\ group = IdleGroup
  /\ findBest = IdleFindBest
  /\ \E a \in CellsA, b \in CellsB : grid = [pc |-> "cells", a |-> a, b |-> b]
  /\ UiIdle

\* The three grids compute the keys of the two cells.
RenderKeys ==
  /\ grid.pc = "cells"
  /\ LET a == grid.a
         b == grid.b
     IN grid' = [pc |-> "keys", a |-> a, b |-> b,
                 timeGrid |-> <<getSlotKey(a[1], a[2], a[3]), getSlotKey(b[1], b[2], b[3])>>,
                 heatMap |-> <<getSlotKeyHeatMap(a[1], a[2], a[3]),
                               getSlotKeyHeatMap(b[1], b[2], b[3])>>,
                 schedule |-> <<getSlotKeySchedule(a[1], a[2], a[3]),
                                getSlotKeySchedule(b[1], b[2], b[3])>>]
  /\ UNCHANGED <<storeVars, uiVars>>

\* The comparisons of findBestTimeSlots on the two keys: key.split('T'), then
\* a.time.localeCompare(b.time) (line 215) and a.date.localeCompare(b.date)
\* (line 299); byKey is the comparison of the whole keys.
CompareKeys ==
  /\ grid.pc = "keys"
  /\ LET pa == Split(grid.timeGrid[1], ChT)
         pb == Split(grid.timeGrid[2], ChT)
     IN grid' = [pc |-> "compared", a |-> grid.a, b |-> grid.b,
                 timeGrid |-> grid.timeGrid, heatMap |-> grid.heatMap,
                 schedule |-> grid.schedule,
                 time |-> Piece(pa, 2),
                 byKey |-> localeCompare(grid.timeGrid[1], grid.timeGrid[2]),
                 byDate |-> localeCompare(Piece(pa, 1), Piece(pb, 1)),
                 byTime |-> localeCompare(Piece(pa, 2), Piece(pb, 2))]
  /\ UNCHANGED <<storeVars, uiVars>>

\* The end of slot a: getSlotEndTime on its time, and the tooltip of the heat map.
SlotEnd ==
  /\ grid.pc = "compared"
  /\ grid' = [pc |-> "done", a |-> grid.a, b |-> grid.b,
              timeGrid |-> grid.timeGrid, heatMap |-> grid.heatMap,
              schedule |-> grid.schedule, time |-> grid.time,
              byKey |-> grid.byKey, byDate |-> grid.byDate, byTime |-> grid.byTime,
              endTime |-> getSlotEndTime(grid.time),
              endHeatMap |-> slotEndHeatMap(grid.a[2], grid.a[3])]
  /\ UNCHANGED <<storeVars, uiVars>>

NextCodec ==
  \/ RenderKeys
  \/ CompareKeys
  \/ SlotEnd

SpecCodec == InitCodec /\ [][NextCodec]_vars

\* The read calls of refreshGroupData while participants save: the page of
\* TimeGrid.tsx calls calculateGroupAvailability and findBestTimeSlots (with
\* the default limit) while saveAvailability calls of other pages run.  Each
\* await of a call is one step; saves commit between them.
LiveNames == {NameAlice, NameBob}
LiveSlotChoices == SaveSlotChoices \cup {<<>>}     \* Array.from of an empty selection
LiveToken == "t1"

SaveCheckLive ==
  \E e \in EventIds, n \in LiveNames, sl \in LiveSlotChoices :
    SaveCheck(e, n, sl, LiveToken)
CalculateGroupLive == findBest.pc = "idle" /\ CalculateGroup(CoreEvent)
FindBestAggregateLive == group.pc = "idle" /\ FindBestAggregate(CoreEvent)
FindBestReturnLive == FindBestReturn(DefaultLimit)

NextLive ==
  \/ SaveCheckLive
  \/ SaveUpsertAny
  \/ SaveUpsertFailsAny
  \/ CalculateGroupLive
  \/ FindBestAggregateLive
  \/ FindBestRank
  \/ FindBestReturnLive

SpecLive == Init /\ [][NextLive]_vars

\* ------------------------------------------------------------------------
\* Vocabulary of the properties
\* ------------------------------------------------------------------------
NoDuplicates(seq) == \A i, j \in DOMAIN seq : i # j => seq[i] # seq[j]

HalfHours == { 30 * k : k \in 0..47 }        \* slot starts of a day, in minutes
GridDates == { formatDate(c[1]) : c \in GridCells }

KeyAt(date, m) == date \o <<ChT>> \o timeStr(m \div 60, m % 60)

\* The 30-minute slots a block covers: those starting in [startTime, endTime).
SlotsOf(b) ==
  LET lo == Minutes(b.startTime)
      hi == Minutes(b.endTime)
  IN { m \in HalfHours : lo <= m /\ m < hi }

\* date and start (in minutes) of the slot of an aggregate entry
EntryDate(entry) == SubSeq(entry.key, 1, 10)
EntryMinutes(entry) == Minutes(SubSeq(entry.key, 12, 16))

NamesAt(entries, key) == SeqToSet(SlotEntry(entries, key).participants)

\* Rank of a block under the four keys: -1 if a is before b, 1 if after, 0 if
\* no key separates them.
FourKeyOrder(a, b) ==
  LET da == Minutes(a.endTime) - Minutes(a.startTime)
      db == Minutes(b.endTime) - Minutes(b.startTime)
  IN IF a.count # b.count THEN (IF a.count > b.count THEN -1 ELSE 1)
     ELSE IF da # db THEN (IF da > db THEN -1 ELSE 1)
     ELSE IF a.date # b.date THEN localeCompare(a.date, b.date)
     ELSE localeCompare(a.startTime, b.startTime)

\* parse(`${startDate} ${time}`, 'yyyy-MM-dd HH:mm', ...) of the calendar export
\* gives a valid date for the time part: two digits 00..23, ':', two digits
\* 00..59.
ParsesAsHHmm(time) ==
  /\ Len(time) = 5
  /\ time[3] = ChColon
  /\ IsDigits(SubSeq(time, 1, 2)) /\ DigitsValue(SubSeq(time, 1, 2)) \in 0..23
  /\ IsDigits(SubSeq(time, 4, 5)) /\ DigitsValue(SubSeq(time, 4, 5)) \in 0..59

\* A key of the shape YYYY-MM-DDTHH:MM with hour 00..23 and minute 00 or 30.
WellFormedKey(k) ==
  /\ Len(k) = 16
  /\ k[5] = ChDash /\ k[8] = ChDash /\ k[11] = ChT /\ k[14] = ChColon
  /\ IsDigits(SubSeq(k, 1, 4)) /\ IsDigits(SubSeq(k, 6, 7)) /\ IsDigits(SubSeq(k, 9, 10))
  /\ IsDigits(SubSeq(k, 12, 13)) /\ DigitsValue(SubSeq(k, 12, 13)) \in 0..23
  /\ IsDigits(SubSeq(k, 15, 16)) /\ DigitsValue(SubSeq(k, 15, 16)) \in {0, 30}

HasMalformedKey(availabilities) ==
  \E i \in DOMAIN availabilities :
    \E j \in DOMAIN availabilities[i].slots : ~WellFormedKey(availabilities[i].slots[j])

\* The orders a list of n elements can be put in, and the list in such an order.
Orders(n) == { p \in [1..n -> 1..n] : \A i, j \in 1..n : i # j => p[i] # p[j] }
InOrder(seq, p) == [i \in DOMAIN seq |-> seq[p[i]]]

KeysOf(entries) == { entries[i].key : i \in DOMAIN entries }

\* Two aggregates with the same keys, and per key the same count and the same
\* set of names.
SameTally(a, b) ==
  /\ KeysOf(a) = KeysOf(b)
  /\ \A k \in KeysOf(a) :
       /\ SlotEntry(a, k).count = SlotEntry(b, k).count
       /\ NamesAt(a, k) = NamesAt(b, k)

\* ------------------------------------------------------------------------
\* Properties of the aggregation and of the block finder (SpecCore)
\* ------------------------------------------------------------------------

\* C1: over records with distinct names and no duplicate slot key, every entry
\* of the aggregate returned by calculateGroupAvailability has
\* count = length(participants), and no name twice in participants.
C1_CountMatchesParticipants ==
  (/\ group.pc = "done"
   /\ NoDuplicates([i \in DOMAIN group.availabilities |->
                      group.availabilities[i].participantName])
   /\ \A i \in DOMAIN group.availabilities : NoDuplicates(group.availabilities[i].slots))
  => \A k \in DOMAIN group.slots :
       /\ group.slots[k].count = Len(group.slots[k].participants)
       /\ NoDuplicates(group.slots[k].participants)

\* C1 witness: an aggregate with a slot that three participants selected.
C1_Witness ==
  /\ group.pc = "done"
  /\ \E k \in DOMAIN group.slots :
       group.slots[k].count = 3 /\ Len(group.slots[k].participants) = 3

\* C2: in every returned block, each constituent 30-minute slot has an
\* aggregate count equal to the block's count, and the block's participants
\* are exactly the names common to all its constituent slots.
C2_BlockUniform ==
  findBest.pc = "done" =>
    \A i \in DOMAIN findBest.result :
      LET b == findBest.result[i]
          ga == findBest.groupAvailability
      IN /\ SlotsOf(b) # {}
         /\ \A m \in SlotsOf(b) :
              /\ HasSlot(ga, KeyAt(b.date, m))
              /\ SlotEntry(ga, KeyAt(b.date, m)).count = b.count
         /\ \A n \in Names :
              n \in SeqToSet(b.participants)
                <=> \A m \in SlotsOf(b) : n \in NamesAt(ga, KeyAt(b.date, m))

\* C2 witness: a returned block of two slots whose count (1) is not the size
\* of its participants list (0): each slot was selected by a different person.
C2_Witness ==
  /\ findBest.pc = "done"
  /\ \E i \in DOMAIN findBest.result :
       /\ Cardinality(SlotsOf(findBest.result[i])) >= 2
       /\ findBest.result[i].count = 1
       /\ findBest.result[i].participants = <<>>

\* C3: without truncation (limit >= number of blocks), on every date the
\* returned blocks cover exactly the 30-minute slots that have an aggregate
\* entry on that date, each of them once.
C3_BlockCoverage ==
  (findBest.pc = "done" /\ findBest.limit >= Len(findBest.ranked)) =>
    LET ga == findBest.groupAvailability
        res == findBest.result
        slots == [i \in DOMAIN res |-> SlotsOf(res[i])]
    IN \* none invented
       /\ \A i \in DOMAIN res : \A m \in slots[i] : HasSlot(ga, KeyAt(res[i].date, m))
       \* none dropped
       /\ \A k \in DOMAIN ga :
            \E i \in DOMAIN res :
              res[i].date = EntryDate(ga[k]) /\ EntryMinutes(ga[k]) \in slots[i]
       \* none covered twice
       /\ \A i, j \in DOMAIN res :
            (i < j /\ res[i].date = res[j].date) => slots[i] \cap slots[j] = {}

\* C3 witness: an untruncated result with blocks on both dates, one of them
\* longer than one slot.
C3_Witness ==
  /\ findBest.pc = "done"
  /\ findBest.limit >= Len(findBest.ranked)
  /\ \A d \in GridDates : \E i \in DOMAIN findBest.result : findBest.result[i].date = d
  /\ \E i \in DOMAIN findBest.result : Cardinality(SlotsOf(findBest.result[i])) >= 2

\* C4: the returned list is ordered by count descending, then duration
\* descending, then date ascending, then startTime ascending, and no two
\* distinct returned blocks are equal under these four keys.
C4_RankOrder ==
  findBest.pc = "done" =>
    \A i, j \in DOMAIN findBest.result :
      i < j => FourKeyOrder(findBest.result[i], findBest.result[j]) < 0

\* C4 witness: a result where duration decides against date (a longer block of
\* the later date first) and where startTime alone decides between two blocks.
C4_Witness ==
  /\ findBest.pc = "done"
  /\ \E i, j \in DOMAIN findBest.result :
       /\ i < j
       /\ findBest.result[i].count = findBest.result[j].count
       /\ localeCompare(findBest.result[i].date, findBest.result[j].date) > 0
  /\ \E i, j \in DOMAIN findBest.result :
       /\ i < j
       /\ findBest.result[i].count = findBest.result[j].count
       /\ findBest.result[i].date = findBest.result[j].date
       /\ Cardinality(SlotsOf(findBest.result[i])) = Cardinality(SlotsOf(findBest.result[j]))

\* C5: for every limit, at most limit blocks are returned, and they are the
\* first limit elements of the fully ranked list.
C5_AtMostLimit ==
  findBest.pc = "done" =>
    /\ Len(findBest.result) <= findBest.limit
    /\ findBest.result
         = WithoutDuration(SubSeq(findBest.ranked, 1,
                                  Min(findBest.limit, Len(findBest.ranked))))

\* C5 for the limits that are not negative: the same statement holds.
C5_AtMostLimitFromZero ==
  (findBest.pc = "done" /\ findBest.limit >= 0) =>
    /\ Len(findBest.result) <= findBest.limit
    /\ findBest.result
         = WithoutDuration(SubSeq(findBest.ranked, 1,
                                  Min(findBest.limit, Len(findBest.ranked))))

\* C6: a call with limit <= 0 is rejected with InvalidLimitError and returns
\* no list of blocks.
C6_NonPositiveLimitRejected ==
  (findBest.pc = "done" /\ findBest.limit <= 0) => findBest.error = "InvalidLimitError"

\* C7: degenerate input is no error: the aggregate of no records has no
\* entry, and findBestTimeSlots returns the empty list without raising when
\* there is no record or the aggregate has no entry.
C7_DegenerateInputIsEmpty ==
  /\ (group.pc = "done" /\ group.availabilities = <<>>) => group.slots = <<>>
  /\ (/\ findBest.pc = "done"
      /\ (findBest.totalParticipants = 0 \/ findBest.groupAvailability = <<>>))
     => (findBest.error = "none" /\ findBest.result = <<>>)

\* C7 witness: findBestTimeSlots has returned for an event without records,
\* called with the default limit.
C7_Witness ==
  /\ findBest.pc = "done"
  /\ findBest.totalParticipants = 0
  /\ findBest.groupAvailability = <<>>
  /\ findBest.limit = DefaultLimit

\* C13: the aggregate of the records in any other order has the same slot
\* keys, the same count for every key and the same set of names for every key
\* as the aggregate calculateGroupAvailability returned.
C13_OrderOfRecordsIrrelevant ==
  group.pc = "done" =>
    \A p \in Orders(Len(group.availabilities)) :
      SameTally(Aggregate(InOrder(group.availabilities, p)), group.slots)

\* C13 witness: an aggregate of three records where another order of the records
\* gives another aggregate (another order of keys or of names), with a key
\* that two or more participants selected.
C13_Witness ==
  /\ group.pc = "done"
  /\ Len(group.availabilities) = 3
  /\ \E k \in DOMAIN group.slots : group.slots[k].count >= 2
  /\ \E p \in Orders(3) : Aggregate(InOrder(group.availabilities, p)) # group.slots

\* C14: without truncation, no two returned blocks of one date are adjacent
\* (the endTime of one is the startTime of the other) with the same count, and
\* two adjacent slots of one date are in the same block exactly when their
\* counts are equal.
C14_BlocksMaximal ==
  (findBest.pc = "done" /\ findBest.limit >= Len(findBest.ranked)) =>
    LET ga == findBest.groupAvailability
        res == findBest.result
        slots == [i \in DOMAIN res |-> SlotsOf(res[i])]
    IN /\ \A i, j \in DOMAIN res :
            (i # j /\ res[i].date = res[j].date /\ res[i].endTime = res[j].startTime)
              => res[i].count # res[j].count
       /\ \A a, b \in DOMAIN ga :
            (/\ EntryDate(ga[a]) = EntryDate(ga[b])
             /\ EntryMinutes(ga[b]) = EntryMinutes(ga[a]) + 30)
            => ((\E i \in DOMAIN res :
                   /\ res[i].date = EntryDate(ga[a])
                   /\ EntryMinutes(ga[a]) \in slots[i]
                   /\ EntryMinutes(ga[b]) \in slots[i])
                <=> ga[a].count = ga[b].count)

\* C14 witness: an untruncated result with a block of two slots followed, on
\* the same date and without gap, by a block of another count.
C14_Witness ==
  /\ findBest.pc = "done"
  /\ findBest.limit >= Len(findBest.ranked)
  /\ \E i, j \in DOMAIN findBest.result :
       /\ findBest.result[i].date = findBest.result[j].date
       /\ findBest.result[i].endTime = findBest.result[j].startTime
       /\ findBest.result[i].count # findBest.result[j].count
       /\ Cardinality(SlotsOf(findBest.result[i])) = 2

\* C15: every returned block covers slots of one date only: it lies within
\* the day of its date, every slot it covers has an aggregate entry of that
\* date, and its participants are names of its own date's entries; without
\* truncation the blocks cover as many slots as the aggregate has entries, so
\* no entry is taken into a block of another date, whatever its time.
C15_OneDatePerBlock ==
  findBest.pc = "done" =>
    LET ga == findBest.groupAvailability
        res == findBest.result
    IN /\ \A i \in DOMAIN res :
            LET lo == Minutes(res[i].startTime)
                hi == Minutes(res[i].endTime)
            IN /\ 0 <= lo /\ lo < hi /\ hi <= 24 * 60
               /\ \A m \in SlotsOf(res[i]) :
                    /\ HasSlot(ga, KeyAt(res[i].date, m))
                    /\ SeqToSet(res[i].participants) \subseteq NamesAt(ga, KeyAt(res[i].date, m))
       /\ findBest.limit >= Len(findBest.ranked) =>
            Cardinality(UNION { { <<i, m>> : m \in SlotsOf(res[i]) } : i \in DOMAIN res })
              = Len(ga)

\* C15 witness: the last slot of one date (ending 24:00) and the first slot of
\* the next date (starting 00:00) have the same count and the same participant,
\* and are returned as two blocks.
C15_Witness ==
  /\ findBest.pc = "done"
  /\ \E i, j \in DOMAIN findBest.result :
       /\ findBest.result[i].date = formatDate(Date1)
       /\ findBest.result[i].endTime = timeStr(24, 0)
       /\ findBest.result[j].date = formatDate(Date2)
       /\ findBest.result[j].startTime = timeStr(0, 0)
       /\ findBest.result[i].count = findBest.result[j].count
       /\ findBest.result[i].participants = findBest.result[j].participants
       /\ findBest.result[i].participants # <<>>

\* C16: every returned block has startTime < endTime within its date, endTime
\* being a valid HH:MM time of that date (as startTime is), and endTime -
\* startTime a positive multiple of 30 minutes.
C16_BlockTimesValid ==
  findBest.pc = "done" =>
    \A i \in DOMAIN findBest.result :
      LET b == findBest.result[i] IN
      /\ ParsesAsHHmm(b.startTime)
      /\ ParsesAsHHmm(b.endTime)
      /\ localeCompare(b.startTime, b.endTime) < 0
      /\ Minutes(b.endTime) - Minutes(b.startTime) > 0
      /\ (Minutes(b.endTime) - Minutes(b.startTime)) % 30 = 0

\* C16 for the blocks that do not contain the 23:30 slot: the same statement
\* holds; a block that contains it ends at "24:00".
C16_BlockTimesValidBeforeLastSlot ==
  findBest.pc = "done" =>
    \A i \in DOMAIN findBest.result :
      LET b == findBest.result[i] IN
      /\ ParsesAsHHmm(b.startTime)
      /\ localeCompare(b.startTime, b.endTime) < 0
      /\ Minutes(b.endTime) - Minutes(b.startTime) > 0
      /\ (Minutes(b.endTime) - Minutes(b.startTime)) % 30 = 0
      /\ (23 * 60 + 30 \notin SlotsOf(b)) => ParsesAsHHmm(b.endTime)
      /\ (23 * 60 + 30 \in SlotsOf(b)) => b.endTime = timeStr(24, 0)

\* C20: in every participants list of the aggregate, names are in the order of
\* the records read from the store: if record r1 precedes record r2 and both
\* contain key k, r1's name precedes r2's name in the participants of k.
C20_FirstSeenOrder ==
  group.pc = "done" =>
    \A k \in DOMAIN group.slots :
      LET key == group.slots[k].key
          ps == group.slots[k].participants
          recs == group.availabilities
      IN \A r1, r2 \in DOMAIN recs :
           (/\ r1 < r2
            /\ key \in SeqToSet(recs[r1].slots)
            /\ key \in SeqToSet(recs[r2].slots))
           => \E i, j \in DOMAIN ps :
                /\ i < j
                /\ ps[i] = recs[r1].participantName
                /\ ps[j] = recs[r2].participantName

\* C20 witness: the first and the third record share a key that the second
\* has not; its participants are the first name, then the third.
C20_Witness ==
  /\ group.pc = "done"
  /\ Len(group.availabilities) = 3
  /\ \E k \in DOMAIN group.slots :
       /\ group.slots[k].key \notin SeqToSet(group.availabilities[2].slots)
       /\ group.slots[k].participants
            = <<group.availabilities[1].participantName,
                group.availabilities[3].participantName>>

\* ------------------------------------------------------------------------
\* Properties of the availability store (Spec)
\* ------------------------------------------------------------------------

\* C8: the table holds at most one row per (event id, participant name); a
\* resubmission replaces the participant's row.
C8_OneRecordPerParticipant ==
  \A i, j \in DOMAIN table :
    i # j => ~RowMatches(table[j], table[i].event_id, table[i].participant_name)

\* C8 witness: the row inserted by the first call carries the submission of
\* the second call, and it is the only row.
C8_Witness ==
  /\ Len(table) = 1
  /\ table[1].id = 1
  /\ table[1].submitted_at = 2
  /\ saves = {}

\* C9: no two rows of one event have names that are equal when letter case
\* is ignored.
C9_NamesUniqueIgnoringCase ==
  \A i, j \in DOMAIN table :
    (i # j /\ table[i].event_id = table[j].event_id)
      => toLowerCase(table[i].participant_name) # toLowerCase(table[j].participant_name)

\* C10: a row stored with session token T is never overwritten by a call that
\* presents another token: in every step, the row of a (event, name) that
\* carries a token keeps that token (an upsert writes the token of its call).
C10_OnlySubmitterOverwrites ==
  [][\A i \in DOMAIN table :
       table[i].session_token # NoToken =>
         \A j \in DOMAIN table' :
           RowMatches(table'[j], table[i].event_id, table[i].participant_name)
             => table'[j].session_token = table[i].session_token]_vars

\* ------------------------------------------------------------------------
\* Properties of the read calls while saves commit (SpecLive)
\* ------------------------------------------------------------------------

\* C11: in one findBestTimeSlots call, the aggregate from which blocks are
\* built and totalParticipants come from the same list of records, even when
\* a saveAvailability call commits between the two reads of the call.
C11_OneSnapshot ==
  findBest.pc \in {"ranked", "done"} =>
    /\ findBest.aggregated = findBest.availabilities
    /\ findBest.totalParticipants = Len(findBest.aggregated)

\* The names of the rows of event e whose stored slots contain key k.
StoredNames(tbl, e, k) ==
  { tbl[i].participant_name :
      i \in { j \in DOMAIN tbl : tbl[j].event_id = e /\ k \in SeqToSet(tbl[j].slots) } }

\* C12: whenever calculateGroupAvailability returns, after any saves, each slot
\* key's participants are exactly the participants whose current stored record
\* contains that key (count = their number): slots dropped in a resubmission
\* contribute no more, and a key that no stored record contains has no entry.
C12_FullRecomputation ==
  [][group' # group =>
       /\ \A k \in SlotKeys :
            LET who == StoredNames(table, group'.eventId, k)
            IN IF who = {} THEN ~HasSlot(group'.slots, k)
               ELSE /\ HasSlot(group'.slots, k)
                    /\ NamesAt(group'.slots, k) = who
                    /\ SlotEntry(group'.slots, k).count = Cardinality(who)
       /\ \A i \in DOMAIN group'.slots : group'.slots[i].key \in SlotKeys]_vars

\* C12 witness: the aggregate computed after a participant's resubmission
\* (the row inserted by call 1 holds the one-key submission of call 2) has
\* that participant at the key kept and no entry for any other key.
C12_Witness ==
  /\ group.pc = "done"
  /\ Len(group.availabilities) = 1
  /\ group.availabilities[1].id = 1
  /\ group.availabilities[1].submittedAt = 2
  /\ group.availabilities[1].slots = <<getSlotKey(Date1, 23, 0)>>
  /\ Len(group.slots) = 1
  /\ group.slots[1].key = getSlotKey(Date1, 23, 0)
  /\ group.slots[1].count = 1
  /\ ~HasSlot(group.slots, getSlotKey(Date2, 0, 0))

\* ------------------------------------------------------------------------
\* Properties of the reads over stored rows with malformed keys (SpecStored)
\* ------------------------------------------------------------------------

\* C17: a stored slot key that is not of the shape YYYY-MM-DDTHH:MM, or whose
\* minute is not 00 or 30, never reaches the aggregation: no entry of an
\* aggregate has such a key, and findBestTimeSlots over records that hold one
\* is rejected with MalformedKeyError or InvalidTimeError and returns no block.
C17_MalformedKeysRejected ==
  /\ group.pc = "done" =>
       \A i \in DOMAIN group.slots : WellFormedKey(group.slots[i].key)
  /\ (findBest.pc = "done" /\ HasMalformedKey(findBest.aggregated)) =>
       /\ findBest.error \in {"MalformedKeyError", "InvalidTimeError"}
       /\ findBest.result = <<>>

\* ------------------------------------------------------------------------
\* Properties of the slot key codec (SpecCodec)
\* ------------------------------------------------------------------------

\* -1, 0 or 1 as cell a is chronologically before, at, or after cell b.
Chronological(a, b) ==
  LET ta == <<a[1][1], a[1][2], a[1][3], a[2], a[3]>>
      tb == <<b[1][1], b[1][2], b[1][3], b[2], b[3]>>
      diff == { i \in 1..5 : ta[i] # tb[i] }
  IN IF diff = {} THEN 0
     ELSE LET i == CHOOSE i \in diff : \A j \in diff : i <= j
          IN IF ta[i] < tb[i] THEN -1 ELSE 1

\* C18: the string comparison used to sort slots puts the key of cell a before
\* the key of cell b exactly when a is chronologically earlier (whole keys;
\* date parts; time parts within one date), and the time grid, the heat map
\* and the scheduling grid compute the identical key for a cell.
C18_KeyOrderIsChronological ==
  /\ grid.pc \in {"keys", "compared", "done"} =>
       /\ grid.heatMap = grid.timeGrid
       /\ grid.schedule = grid.timeGrid
  /\ grid.pc \in {"compared", "done"} =>
       /\ grid.byKey = Chronological(grid.a, grid.b)
       /\ grid.byDate = Chronological(<<grid.a[1], 0, 0>>, <<grid.b[1], 0, 0>>)
       /\ grid.byDate = 0 => grid.byTime = Chronological(grid.a, grid.b)

\* C18 witness: two cells where the later one has the smaller hour, day and
\* month digits in front (2024-09-30 10:00 and 2024-10-09 09:00), compared.
C18_Witness ==
  /\ grid.pc = "compared"
  /\ grid.a = <<<<2024, 9, 30>>, 10, 0>>
  /\ grid.b = <<<<2024, 10, 9>>, 9, 0>>
  /\ grid.byKey = -1
  /\ grid.byTime = 1

\* C19: the end of the slot (h, 0) is (h, 30) and the end of (h, 30) is
\* (h + 1, 0), for every hour 0..23, in getSlotEndTime as zero-padded HH:MM
\* and in the heat map as numbers; the end of the 23:30 slot is 24:00, not
\* 00:00.
C19_SlotEnd ==
  grid.pc = "done" =>
    LET h == grid.a[2]
        m == grid.a[3]
        eh == IF m = 0 THEN h ELSE h + 1
        em == IF m = 0 THEN 30 ELSE 0
    IN /\ grid.endTime = <<ChZero + (eh \div 10), ChZero + (eh % 10), ChColon,
                            ChZero + (em \div 10), ChZero + (em % 10)>>
       /\ grid.endHeatMap = <<eh, em>>
       /\ (h = 23 /\ m = 30) =>
            /\ grid.endTime = <<50, 52, ChColon, ChZero, ChZero>>
            /\ grid.endHeatMap = <<24, 0>>

\* C19 witness: the end of the 23:30 slot has been computed.
C19_Witness ==
  /\ grid.pc = "done"
  /\ grid.a[2] = 23
  /\ grid.a[3] = 30
  /\ grid.endTime = <<50, 52, ChColon, ChZero, ChZero>>

\* ------------------------------------------------------------------------
\* The rate limiter (src/lib/rate-limit.ts)
\* ------------------------------------------------------------------------
RateKeys == {"create_event_c1", "create_event_c2"}
NoEntry == [present |-> FALSE]                  \* rateLimitMap.get(key) undefined
RateLimitEntry(count, resetTime) ==
  [present |-> TRUE, count |-> count, resetTime |-> resetTime]

\* Math.ceil(ms / 1000) for ms >= 0
CeilSeconds(ms) == (ms + 999) \div 1000

\* checkRateLimit(key, limit, windowMs) at time t on the map m: the map after
\* the call and the result returned.
checkRateLimitCountsDenied(m, key, limit, windowMs, t) ==
  LET entry == m[key] IN
  IF ~entry.present \/ t > entry.resetTime
  THEN [map |-> [m EXCEPT ![key] = RateLimitEntry(1, t + windowMs)],
        result |-> [success |-> TRUE, remaining |-> limit - 1,
                    resetIn |-> CeilSeconds(windowMs)]]
  ELSE IF entry.count >= limit
  THEN [map |-> [m EXCEPT ![key].count = @ + 1],
        result |-> [success |-> FALSE, remaining |-> 0,
                    resetIn |-> CeilSeconds(entry.resetTime - t)]]
  ELSE [map |-> [m EXCEPT ![key].count = @ + 1],
        result |-> [success |-> TRUE, remaining |-> limit - (entry.count + 1),
                    resetIn |-> CeilSeconds(entry.resetTime - t)]]

checkRateLimit(m, key, limit, windowMs, t) ==
  LET entry == m[key] IN
  IF ~entry.present \/ t > entry.resetTime
  THEN [map |-> [m EXCEPT ![key] = RateLimitEntry(1, t + windowMs)],
        result |-> [success |-> TRUE, remaining |-> limit - 1,
                    resetIn |-> CeilSeconds(windowMs)]]
  ELSE IF entry.count >= limit
  THEN [map |-> m,
        result |-> [success |-> FALSE, remaining |-> 0,
                    resetIn |-> CeilSeconds(entry.resetTime - t)]]
  ELSE [map |-> [m EXCEPT ![key].count = @ + 1],
        result |-> [success |-> TRUE, remaining |-> limit - (entry.count + 1),
                    resetIn |-> CeilSeconds(entry.resetTime - t)]]

\* The arguments a call site passes: the same limit and windowMs in every call.
RateLimits == 0..MaxRateLimit
RateWindows == {0, 1, 2}

InitRate ==
  /\ table = <<>>
  /\ saves = {}
  /\ started = 0
  /\ lastReturn = NoReturn
  /\ group = IdleGroup
  /\ findBest = IdleFindBest
  /\ grid = IdleGrid
  /\ touch = IdleTouch
  /\ page = IdlePage
  /\ dialog = IdleDialog
  /\ wizard = IdleWizard
  /\ \E limit \in RateLimits, windowMs \in RateWindows :
       rate = [pc |-> "live", limit |-> limit, windowMs |-> windowMs, now |-> 0,
               rateLimitMap |-> [k \in RateKeys |-> NoEntry], log |-> <<>>]

\* A call checkRateLimit(key, limit, windowMs) at Date.now() = rate.now.  log
\* keeps, for every call, its key, its time, what it returned, and the
\* resetTime of the key's entry when it returned.
CheckRateLimit(key) ==
  /\ rate.pc = "live"
  /\ Len(rate.log) < MaxRateCalls
  /\ LET r == checkRateLimit(rate.rateLimitMap, key, rate.limit, rate.windowMs, rate.now)
         entry == rate.rateLimitMap[key]
     IN rate' = [rate EXCEPT
                   !.rateLimitMap = r.map,
                   !.log = Append(@, [key |-> key, now |-> rate.now,
                                      success |-> r.result.success,
                                      remaining |-> r.result.remaining,
                                      resetIn |-> r.result.resetIn,
                                      opened |-> (~entry.present \/ rate.now > entry.resetTime),
                                      resetTime |-> r.map[key].resetTime])]
  /\ UNCHANGED <<storeVars, grid, touch, page, dialog, wizard>>

\* Date.now() advances.
Tick ==
  /\ rate.pc = "live"
  /\ rate.now < MaxTime
  /\ rate' = [rate EXCEPT !.now = @ + 1]
  /\ UNCHANGED <<storeVars, grid, touch, page, dialog, wizard>>

\* The setInterval callback: every entry with now > resetTime is deleted.
CleanUp ==
  /\ rate.pc = "live"
  /\ rate' = [rate EXCEPT !.rateLimitMap =
                [k \in RateKeys |->
                   IF @[k].present /\ rate.now > @[k].resetTime THEN NoEntry ELSE @[k]]]
  /\ UNCHANGED <<storeVars, grid, touch, page, dialog, wizard>>

NextRate ==
  \/ \E key \in RateKeys : CheckRateLimit(key)
  \/ Tick
  \/ CleanUp

SpecRate == InitRate /\ [][NextRate]_vars

\* The calls of the window that call i of the log opened: those made with the
\* same key from call i until the window's resetTime.
WindowOf(i) ==
  { j \in DOMAIN rate.log :
      /\ j >= i
      /\ rate.log[j].key = rate.log[i].key
      /\ rate.log[j].now <= rate.log[i].resetTime }

Granted(calls) == { j \in calls : rate.log[j].success }

\* C21: among the calls of one key from the call that opens a window until
\* the window's resetTime, at most limit return success: true, and every call
\* after limit of them succeeded returns success: false with remaining 0.
C21_AtMostLimitPerWindow ==
  rate.pc = "live" =>
    \A i \in DOMAIN rate.log :
      rate.log[i].opened =>
        /\ Cardinality(Granted(WindowOf(i))) <= rate.limit
        /\ \A j \in WindowOf(i) :
             Cardinality(Granted({ q \in WindowOf(i) : q < j })) >= rate.limit
               => (~rate.log[j].success /\ rate.log[j].remaining = 0)

\* C21 for limit >= 1: the same statement holds.
C21_AtMostLimitPerWindowFromOne ==
  (rate.pc = "live" /\ rate.limit >= 1) =>
    \A i \in DOMAIN rate.log :
      rate.log[i].opened =>
        /\ Cardinality(Granted(WindowOf(i))) <= rate.limit
        /\ \A j \in WindowOf(i) :
             Cardinality(Granted({ q \in WindowOf(i) : q < j })) >= rate.limit
               => (~rate.log[j].success /\ rate.log[j].remaining = 0)

\* C26: a checkRateLimit call that returns success: false changes nothing:
\* the count and the resetTime of its key are the same before and after (the
\* count stays at most limit, the window is not extended), and no call
\* modifies the entry of another key.
C26_DeniedCallChangesNothing ==
  [][(rate.pc = "live" /\ Len(rate'.log) > Len(rate.log)) =>
       LET call == rate'.log[Len(rate'.log)] IN
       /\ ~call.success =>
            /\ rate'.rateLimitMap = rate.rateLimitMap
            /\ rate'.rateLimitMap[call.key].count = rate.rateLimitMap[call.key].count
            /\ rate'.rateLimitMap[call.key].resetTime = rate.rateLimitMap[call.key].resetTime
       /\ \A k \in RateKeys \ {call.key} :
            rate'.rateLimitMap[k] = rate.rateLimitMap[k]]_vars

\* C26 witness: a call of one key was denied after the calls the limit
\* allows, the key's entry still has count = limit and the resetTime of the
\* call that opened the window, and the other key has an entry too.
C26_Witness ==
  /\ rate.pc = "live"
  /\ rate.limit = 2
  /\ Len(rate.log) = MaxRateCalls
  /\ \E k \in RateKeys :
       /\ Cardinality({ j \in DOMAIN rate.log :
                          rate.log[j].key = k /\ ~rate.log[j].success }) >= 1
       /\ rate.rateLimitMap[k].present
       /\ rate.rateLimitMap[k].count = rate.limit
       /\ \E i \in DOMAIN rate.log :
            /\ rate.log[i].key = k /\ rate.log[i].opened
            /\ rate.rateLimitMap[k].resetTime = rate.log[i].resetTime
       /\ \E k2 \in RateKeys \ {k} : rate.rateLimitMap[k2].present

\* ------------------------------------------------------------------------
\* The selection grid under touch (TimeGrid.tsx, lines 60-122)
\* ------------------------------------------------------------------------
\* Two cells of the grid, by their slot keys.
TouchCells == { getSlotKey(Date1, 23, 0), getSlotKey(Date1, 23, 30) }

\* toggleSlot(dateIndex, timeIndex, force): force is "add", "remove" or "none".
toggleSlot(selectedSlots, key, force) ==
  IF force = "add" THEN selectedSlots \cup {key}
  ELSE IF force = "remove" THEN selectedSlots \ {key}
  ELSE IF key \in selectedSlots THEN selectedSlots \ {key}
  ELSE selectedSlots \cup {key}

\* The mouse events a browser may dispatch on the cell after a touch.
SimulatedMouseEvents == <<"mouseenter", "mousedown", "mouseup">>

\* touch.tap is the tap under way or done last: its cell, whether the cell was
\* selected before it, and the simulated mouse events still to be dispatched.
\* touch.timers is the queue of the pending 500 ms timers, by tap number.
NoTap == [n |-> 0]

InitTouch ==
  /\ table = <<>>
  /\ saves = {}
  /\ started = 0
  /\ lastReturn = NoReturn
  /\ group = IdleGroup
  /\ findBest = IdleFindBest
  /\ grid = IdleGrid
  /\ rate = IdleRate
  /\ page = IdlePage
  /\ dialog = IdleDialog
  /\ wizard = IdleWizard
  /\ \E sel \in SUBSET TouchCells :
       touch = [pc |-> "live", selectedSlots |-> sel, isDragging |-> FALSE,
                selectionMode |-> "add", justTouched |-> FALSE,
                timers |-> <<>>, tap |-> NoTap]

\* handleMouseDown
handleMouseDown(t, key) ==
  IF t.justTouched THEN t
  ELSE [t EXCEPT !.isDragging = TRUE,
                 !.selectionMode = IF key \in t.selectedSlots THEN "remove" ELSE "add",
                 !.selectedSlots = toggleSlot(@, key,
                                     IF key \in t.selectedSlots THEN "remove" ELSE "add")]

\* handleMouseEnter
handleMouseEnter(t, key) ==
  IF t.isDragging /\ ~t.justTouched
  THEN [t EXCEPT !.selectedSlots = toggleSlot(@, key, t.selectionMode)]
  ELSE t

\* the window's mouseup listener
handleMouseUp(t) == [t EXCEPT !.isDragging = FALSE]

\* handleTouchStart on a cell: a new tap begins once the events of the tap
\* before it have been dispatched.
TouchStart(key) ==
  /\ touch.pc = "live"
  /\ touch.tap.n < MaxTaps
  /\ touch.tap.n > 0 => (touch.tap.ended /\ touch.tap.pending = <<>>)
  /\ touch' = [touch EXCEPT
                 !.justTouched = TRUE,
                 !.selectedSlots = toggleSlot(@, key, "none"),
                 !.tap = [n |-> touch.tap.n + 1, key |-> key,
                          before |-> key \in touch.selectedSlots,
                          ended |-> FALSE, pending |-> <<>>]]
  /\ UNCHANGED <<storeVars, grid, rate, page, dialog, wizard>>

\* handleTouchEnd: the 500 ms timer is started.  The browser dispatches the
\* simulated mouse events afterwards (simulated), or none when it honours
\* preventDefault.
TouchEnd(simulated) ==
  /\ touch.pc = "live"
  /\ touch.tap.n > 0
  /\ ~touch.tap.ended
  /\ touch' = [touch EXCEPT
                 !.timers = Append(@, touch.tap.n),
                 !.tap.ended = TRUE,
                 !.tap.pending = IF simulated THEN SimulatedMouseEvents ELSE <<>>]
  /\ UNCHANGED <<storeVars, grid, rate, page, dialog, wizard>>

\* The next simulated mouse event of the tap reaches its handler.
SimulatedMouse ==
  /\ touch.pc = "live"
  /\ touch.tap.n > 0
  /\ touch.tap.ended
  /\ touch.tap.pending # <<>>
  /\ LET ev == Head(touch.tap.pending)
         t1 == [touch EXCEPT !.tap.pending = Tail(@)]
     IN touch' = IF ev = "mousedown" THEN handleMouseDown(t1, touch.tap.key)
                 ELSE IF ev = "mouseenter" THEN handleMouseEnter(t1, touch.tap.key)
                 ELSE handleMouseUp(t1)
  /\ UNCHANGED <<storeVars, grid, rate, page, dialog, wizard>>

\* The oldest pending timer fires: justTouched.current = false.  The timer of
\* a tap fires 500 ms after its touchend, later than the simulated mouse
\* events of that tap.
ResetTimer ==
  /\ touch.pc = "live"
  /\ touch.timers # <<>>
  /\ (Head(touch.timers) = touch.tap.n) => touch.tap.pending = <<>>
  /\ touch' = [touch EXCEPT !.justTouched = FALSE, !.timers = Tail(@)]
  /\ UNCHANGED <<storeVars, grid, rate, page, dialog, wizard>>

NextTouch ==
  \/ \E key \in TouchCells : TouchStart(key)
  \/ \E simulated \in BOOLEAN : TouchEnd(simulated)
  \/ SimulatedMouse
  \/ ResetTimer

SpecTouch == InitTouch /\ [][NextTouch]_vars

\* C22: a touch tap changes the selected state of its cell exactly once: from
\* handleTouchStart on, through every simulated mouse event of the tap, the
\* cell has the opposite of the state it had before the tap, and the mouse
\* events of the tap find justTouched set.
C22_TapTogglesOnce ==
  (touch.pc = "live" /\ touch.tap.n > 0) =>
    /\ (touch.tap.key \in touch.selectedSlots) = ~touch.tap.before
    /\ touch.tap.pending # <<>> => touch.justTouched

\* ------------------------------------------------------------------------
\* The event page (TimeGrid.tsx, lines 398-525): one participant's page with
\* its save in flight, its refresh of the group data, and another participant
\* who saves to the same event.
\* ------------------------------------------------------------------------
OtherToken == "t2"         \* the session token of the other participant

\* page.call is the position of handleSaveAvailability: "none", "save" (the
\* saveAvailability call is under way) or "refresh" (refreshGroupData is).
InitPage ==
  /\ table = <<>>
  /\ saves = {}
  /\ started = 0
  /\ lastReturn = NoReturn
  /\ group = IdleGroup
  /\ findBest = IdleFindBest
  /\ grid = IdleGrid
  /\ rate = IdleRate
  /\ touch = IdleTouch
  /\ dialog = IdleDialog
  /\ wizard = IdleWizard
  /\ \E n \in LiveNames :
       page = [pc |-> "live", userName |-> n, selectedSlots |-> <<>>,
               hasUnsavedChanges |-> FALSE, saving |-> FALSE, saveError |-> "none",
               call |-> "none", slots |-> <<>>, savesDone |-> 0,
               count |-> [done |-> FALSE, value |-> 0],
               groupAvailability |-> <<>>, bestTimes |-> <<>>,
               participantCount |-> 0, refreshes |-> 0]

\* handleSlotsChange(slots), called by the grid on every change of the selection.
HandleSlotsChange(slots) ==
  /\ page.pc = "live"
  /\ slots # page.selectedSlots
  /\ page' = [page EXCEPT !.selectedSlots = slots,
                          !.hasUnsavedChanges = TRUE,
                          !.saveError = "none"]
  /\ UNCHANGED <<storeVars, grid, rate, touch, dialog, wizard>>

\* handleSaveAvailability up to its first await (lines 498-512).  The button
\* is disabled unless hasUnsavedChanges, not saving, and a slot is selected.
HandleSaveAvailability ==
  /\ page.pc = "live"
  /\ page.hasUnsavedChanges
  /\ ~page.saving
  /\ Len(page.selectedSlots) # 0
  /\ started < MaxSaves
  /\ page' = [page EXCEPT !.saving = TRUE, !.saveError = "none",
                          !.call = "save", !.slots = page.selectedSlots]
  /\ UNCHANGED <<storeVars, grid, rate, touch, dialog, wizard>>

\* saveAvailability(availability, sessionToken) of the page: the select and
\* the ownership check, then the upsert.
PageSaveCheck ==
  /\ page.pc = "live"
  /\ page.call = "save"
  /\ saves = {}
  /\ lastReturn = NoReturn
  /\ SaveCheck(CoreEvent, page.userName, page.slots, LiveToken)

PageSaveUpsert ==
  /\ page.pc = "live"
  /\ \E c \in saves : SaveUpsert(c)

PageSaveUpsertFails ==
  /\ page.pc = "live"
  /\ \E c \in saves : SaveUpsertFails(c)

\* Lines 513-523, what the page does with the result of saveAvailability.
afterSaveForgetsError(p, result) ==
  IF result.error # "none"
  THEN [p EXCEPT !.saving = FALSE, !.call = "none"]
  ELSE [p EXCEPT !.hasUnsavedChanges = FALSE, !.call = "refresh",
                 !.savesDone = @ + 1]

afterSave(p, result) ==
  IF result.error # "none"
  THEN [p EXCEPT !.saveError = result.error, !.saving = FALSE, !.call = "none"]
  ELSE [p EXCEPT !.hasUnsavedChanges = FALSE, !.call = "refresh",
                 !.savesDone = @ + 1]

SaveReturns ==
  /\ page.pc = "live"
  /\ page.call = "save"
  /\ lastReturn # NoReturn
  /\ page' = afterSave(page, lastReturn)
  /\ lastReturn' = NoReturn
  /\ UNCHANGED <<table, saves, started, group, findBest, grid, rate, touch, dialog, wizard>>

\* refreshGroupData: Promise.all of three calls, each with its own reads.
RefreshGroup ==
  /\ page.pc = "live"
  /\ page.call = "refresh"
  /\ group.pc = "idle"
  /\ CalculateGroup(CoreEvent)

RefreshBestAggregate ==
  /\ page.pc = "live"
  /\ page.call = "refresh"
  /\ FindBestAggregate(CoreEvent)

RefreshBestRank ==
  /\ page.pc = "live"
  /\ FindBestRank

RefreshBestReturn ==
  /\ page.pc = "live"
  /\ FindBestReturn(DefaultLimit)

RefreshCount ==
  /\ page.pc = "live"
  /\ page.call = "refresh"
  /\ ~page.count.done
  /\ page' = [page EXCEPT !.count = [done |-> TRUE,
                                    value |-> getParticipantCount(table, CoreEvent)]]
  /\ UNCHANGED <<storeVars, grid, rate, touch, dialog, wizard>>

\* Lines 447-449 and 524: the three results are set, and saving is over.
RefreshDone ==
  /\ page.pc = "live"
  /\ page.call = "refresh"
  /\ group.pc = "done"
  /\ findBest.pc = "done"
  /\ page.count.done
  /\ page' = [page EXCEPT !.groupAvailability = group.slots,
                          !.bestTimes = findBest.result,
                          !.participantCount = page.count.value,
                          !.count = [done |-> FALSE, value |-> 0],
                          !.refreshes = 1,
                          !.saving = FALSE,
                          !.call = "none"]
  /\ group' = IdleGroup
  /\ findBest' = IdleFindBest
  /\ UNCHANGED <<table, saves, started, lastReturn, grid, rate, touch, dialog, wizard>>

\* The other participant's saveAvailability, when it is not refused.
OtherSave(n, sl) ==
  /\ page.pc = "live"
  /\ started < MaxSaves
  /\ ~OwnedByOther(SelectExisting(table, CoreEvent, n), OtherToken)
  /\ started' = started + 1
  /\ table' = Upsert(table, DbAvailability(started + 1, CoreEvent, n, sl,
                                           OtherToken, started + 1))
  /\ UNCHANGED <<saves, lastReturn, group, findBest, grid, uiVars>>

NextPage ==
  \/ \E slots \in LiveSlotChoices : HandleSlotsChange(slots)
  \/ HandleSaveAvailability
  \/ PageSaveCheck
  \/ PageSaveUpsert
  \/ PageSaveUpsertFails
  \/ SaveReturns
  \/ RefreshGroup
  \/ RefreshBestAggregate
  \/ RefreshBestRank
  \/ RefreshBestReturn
  \/ RefreshCount
  \/ RefreshDone
  \/ \E n \in LiveNames, sl \in SaveSlotChoices : OtherSave(n, sl)

SpecPage == InitPage /\ [][NextPage]_vars

\* The slots stored for the participant of the page.
StoredSlots ==
  LET existing == SelectExisting(table, CoreEvent, page.userName)
  IN IF existing = Null THEN {} ELSE SeqToSet(existing.slots)

\* C23: whenever the button shows "Saved" after at least one save
\* (hasUnsavedChanges false, not saving), the slots stored for the participant
\* are the slots selected on the page.
C23_SavedMeansStored ==
  (page.pc = "live" /\ page.savesDone > 0 /\ ~page.hasUnsavedChanges /\ ~page.saving) =>
    StoredSlots = SeqToSet(page.selectedSlots)

\* C24: after a refreshGroupData, the count of every displayed best-time block
\* and of every displayed aggregate slot is at most the displayed
\* participantCount.
C24_CountsWithinParticipantCount ==
  (page.pc = "live" /\ page.refreshes > 0) =>
    /\ \A i \in DOMAIN page.bestTimes :
         page.bestTimes[i].count <= page.participantCount
    /\ \A i \in DOMAIN page.groupAvailability :
         page.groupAvailability[i].count <= page.participantCount

\* C25: a saveAvailability call refused because the name is held under another
\* session token returns data null with the name-taken error and leaves the
\* table as it is; when the page takes that result it sets saveError and
\* hasUnsavedChanges stays true.
C25_RefusedSaveChangesNothing ==
  [][ /\ (page.pc = "live" /\ lastReturn' # lastReturn /\ lastReturn'.error = ErrNameTaken)
        => (/\ OwnedByOther(SelectExisting(table, CoreEvent, page.userName), LiveToken)
            /\ lastReturn'.data = Null
            /\ table' = table
            /\ saves' = saves)
      /\ (page.pc = "live" /\ saves' # saves /\ saves' # {})
        => ~OwnedByOther(SelectExisting(table, CoreEvent, page.userName), LiveToken)
      /\ (page.pc = "live" /\ page.call = "save" /\ lastReturn.error = ErrNameTaken
          /\ lastReturn' = NoReturn)
        => (/\ page'.saveError = ErrNameTaken
            /\ page'.hasUnsavedChanges
            /\ ~page'.saving
            /\ page'.savesDone = page.savesDone
            /\ table' = table) ]_vars

\* A refused save has come back to the page: the name is stored under the
\* other token, with the other participant's slots, and the page shows the error.
C25_Witness ==
  /\ page.pc = "live"
  /\ page.saveError = ErrNameTaken
  /\ page.hasUnsavedChanges
  /\ \E i \in DOMAIN table :
       /\ table[i].participant_name = page.userName
       /\ table[i].session_token = OtherToken

\* ------------------------------------------------------------------------
\* The ScheduleMeeting dialog: the grid version (HeatMap.tsx, lines 355-510)
\* and the list version (ScheduleMeeting.tsx, lines 29-84)
\* ------------------------------------------------------------------------
DURATION_OPTIONS == {15, 30, 45, 60, 90, 120, 180}
DefaultDuration == 30

\* timeSlots of the dialog: every half hour of the hours safeStartHour to
\* safeEndHour - 1, within 0..23.
DialogHours == 0..23
DialogCells == { <<Date1, h, m>> : h \in DialogHours, m \in {0, 30} }

\* parse(`${dateStr} ${startTime}`, 'yyyy-MM-dd HH:mm'), addMinutes, and
\* format(endDate, "HH:mm"): the time of day of the end, the date is dropped.
calculateEndTime(dateStr, startTime, durationMinutes) ==
  LET total == Minutes(startTime) + durationMinutes
      ofDay == total % 1440
  IN timeStr(ofDay \div 60, ofDay % 60)

\* The best-time blocks offered by the list version.
ListSlots ==
  { CloseBlock(formatDate(Date1), OpenBlock([time |-> timeStr(22, 30), count |-> 1,
                                              participants |-> <<NameAlice>>])),
    CloseBlock(formatDate(Date1), OpenBlock([time |-> timeStr(23, 0), count |-> 1,
                                              participants |-> <<NameBob>>])) }

InitDialog ==
  /\ table = <<>>
  /\ saves = {}
  /\ started = 0
  /\ lastReturn = NoReturn
  /\ group = IdleGroup
  /\ findBest = IdleFindBest
  /\ grid = IdleGrid
  /\ rate = IdleRate
  /\ touch = IdleTouch
  /\ page = IdlePage
  /\ wizard = IdleWizard
  /\ \E v \in {"grid", "list"} :
       dialog = [pc |-> "live", version |-> v, isOpen |-> FALSE,
                 step |-> "select-time", selectedSlot |-> Null,
                 duration |-> DefaultDuration, handed |-> Null]

\* onClick={() => setIsOpen(true)}
OpenDialog ==
  /\ dialog.pc = "live"
  /\ ~dialog.isOpen
  /\ dialog' = [dialog EXCEPT !.isOpen = TRUE]
  /\ UNCHANGED <<storeVars, grid, rate, touch, page, wizard>>

\* handleSlotClick(date, time), bound to the cells of step "select-time".
handleSlotClick(d, date, hour, minute) ==
  LET dateStr == formatDate(date)
      startTime == timeStr(hour, minute)
      endTime == calculateEndTime(dateStr, startTime, d.duration)
  IN [d EXCEPT !.selectedSlot = [date |-> dateStr, startTime |-> startTime,
                                 endTime |-> endTime, count |-> 0,
                                 participants |-> <<>>],
               !.step = "compose"]

HandleSlotClick(c) ==
  /\ dialog.pc = "live"
  /\ dialog.version = "grid"
  /\ dialog.isOpen
  /\ dialog.step = "select-time"
  /\ dialog' = handleSlotClick(dialog, c[1], c[2], c[3])
  /\ UNCHANGED <<storeVars, grid, rate, touch, page, wizard>>

\* handleSlotSelect(slot) of the list version.
HandleSlotSelect(slot) ==
  /\ dialog.pc = "live"
  /\ dialog.version = "list"
  /\ dialog.isOpen
  /\ dialog.step = "select-time"
  /\ dialog' = [dialog EXCEPT !.selectedSlot = slot, !.step = "compose"]
  /\ UNCHANGED <<storeVars, grid, rate, touch, page, wizard>>

\* handleDurationChange(newDuration), bound to the select of step "compose".
handleDurationChange(d, newDuration) ==
  IF d.selectedSlot # Null
  THEN [d EXCEPT !.duration = newDuration,
                 !.selectedSlot.endTime =
                    calculateEndTime(d.selectedSlot.date, d.selectedSlot.startTime,
                                     newDuration)]
  ELSE [d EXCEPT !.duration = newDuration]

HandleDurationChange(newDuration) ==
  /\ dialog.pc = "live"
  /\ dialog.version = "grid"
  /\ dialog.isOpen
  /\ dialog.step = "compose"
  /\ dialog.selectedSlot # Null
  /\ newDuration # dialog.duration
  /\ dialog' = handleDurationChange(dialog, newDuration)
  /\ UNCHANGED <<storeVars, grid, rate, touch, page, wizard>>

\* handleBack: the grid version clears selectedSlot, the list version keeps it.
handleBackKeepsStep(d) ==
  IF d.step = "compose"
  THEN [d EXCEPT !.selectedSlot = Null]
  ELSE IF d.step = "confirm" THEN [d EXCEPT !.step = "compose"]
  ELSE d

handleBack(d) ==
  IF d.step = "compose"
  THEN IF d.version = "grid"
       THEN [d EXCEPT !.step = "select-time", !.selectedSlot = Null]
       ELSE [d EXCEPT !.step = "select-time"]
  ELSE IF d.step = "confirm" THEN [d EXCEPT !.step = "compose"]
  ELSE d

HandleBack ==
  /\ dialog.pc = "live"
  /\ dialog.isOpen
  /\ dialog.step # "select-time"
  /\ dialog' = handleBack(dialog)
  /\ UNCHANGED <<storeVars, grid, rate, touch, page, wizard>>

\* handleSchedule, bound to the footer button of step "compose".
HandleSchedule ==
  /\ dialog.pc = "live"
  /\ dialog.isOpen
  /\ dialog.step = "compose"
  /\ dialog' = [dialog EXCEPT !.step = "confirm"]
  /\ UNCHANGED <<storeVars, grid, rate, touch, page, wizard>>

\* handleClose: the overlay, the X button, and Done of step "confirm".
HandleClose ==
  /\ dialog.pc = "live"
  /\ dialog.isOpen
  /\ dialog' = [dialog EXCEPT !.isOpen = FALSE, !.step = "select-time",
                              !.selectedSlot = Null]
  /\ UNCHANGED <<storeVars, grid, rate, touch, page, wizard>>

\* getCalendarEvent()
getCalendarEvent(d) ==
  IF d.selectedSlot = Null THEN Null
  ELSE [startDate |-> d.selectedSlot.date, startTime |-> d.selectedSlot.startTime,
        endTime |-> d.selectedSlot.endTime]

\* downloadICS and the calendar links of step "confirm": the event goes to
\* generateICS / getGoogleCalendarUrl / getOutlookCalendarUrl.
HandOver ==
  /\ dialog.pc = "live"
  /\ dialog.isOpen
  /\ dialog.step = "confirm"
  /\ dialog.selectedSlot # Null
  /\ dialog.handed # getCalendarEvent(dialog)
  /\ dialog' = [dialog EXCEPT !.handed = getCalendarEvent(dialog)]
  /\ UNCHANGED <<storeVars, grid, rate, touch, page, wizard>>

NextDialog ==
  \/ OpenDialog
  \/ \E c \in DialogCells : HandleSlotClick(c)
  \/ \E slot \in ListSlots : HandleSlotSelect(slot)
  \/ \E newDuration \in DURATION_OPTIONS : HandleDurationChange(newDuration)
  \/ HandleBack
  \/ HandleSchedule
  \/ HandleClose
  \/ HandOver

SpecDialog == InitDialog /\ [][NextDialog]_vars

\* C27: every calendar event the grid dialog hands over starts before it ends,
\* on its date: startTime < endTime as times of the day of startDate.
C27_EventStartsBeforeEnd ==
  (dialog.pc = "live" /\ dialog.version = "grid" /\ dialog.handed # Null) =>
    Minutes(dialog.handed.startTime) < Minutes(dialog.handed.endTime)

\* C28: step is "compose" or "confirm" only with a selected slot; "confirm" is
\* entered only from "compose"; closing leaves step "select-time" and no
\* selected slot.
C28_DialogSteps ==
  /\ [](dialog.pc = "live" =>
          (dialog.step \in {"compose", "confirm"} => dialog.selectedSlot # Null))
  /\ [][dialog.pc = "live" =>
          /\ (dialog'.step = "confirm" /\ dialog.step # "confirm") => dialog.step = "compose"
          /\ (dialog.isOpen /\ ~dialog'.isOpen) =>
               (dialog'.step = "select-time" /\ dialog'.selectedSlot = Null)]_vars

\* The dialog is back at "compose" with its slot, after an event was handed
\* over at "confirm".
C28_Witness ==
  /\ dialog.pc = "live"
  /\ dialog.step = "compose"
  /\ dialog.selectedSlot # Null
  /\ dialog.handed # Null

\* ------------------------------------------------------------------------
\* The create-event wizard (CreateEventModal: supabase-schema.sql, lines
\* 102-153 and 366-384) under the landing page that mounts it
\* ------------------------------------------------------------------------
\* Values of TIME_OPTIONS used: `${hour.toString().padStart(2, "0")}:00`.
WizardHours == {0, 9, 17, 23}
TIME_OPTIONS == { timeStr(h, 0) : h \in WizardHours }

\* Event names typed on the landing page.
WizardNames == { <<>>, NameAlice }

\* Selections the calendar picker reports, as dates.map(format).
WizardDates ==
  { <<>>, <<formatDate(Date1)>>, <<formatDate(Date1), formatDate(Date2)>> }

NameOptions == {"required", "optional", "anonymous"}

\* The render-time update: config.name follows a non-empty initialName.
syncName(w) ==
  IF w.config.name # w.initialName /\ w.initialName # <<>>
  THEN [w EXCEPT !.config.name = w.initialName]
  ELSE w

InitWizard ==
  /\ table = <<>>
  /\ saves = {}
  /\ started = 0
  /\ lastReturn = NoReturn
  /\ group = IdleGroup
  /\ findBest = IdleFindBest
  /\ grid = IdleGrid
  /\ rate = IdleRate
  /\ touch = IdleTouch
  /\ page = IdlePage
  /\ dialog = IdleDialog
  /\ wizard = [pc |-> "live", isOpen |-> FALSE, initialName |-> <<>>, step |-> 1,
               config |-> [name |-> <<>>, dates |-> <<>>,
                           startTime |-> timeStr(9, 0), endTime |-> timeStr(17, 0),
                           nameOption |-> "required"],
               submitted |-> Null]

\* canProceed()
canProceedIgnoresTimes(w) ==
  IF w.step = 1 THEN Len(w.config.dates) > 0
  ELSE TRUE

canProceed(w) ==
  IF w.step = 1 THEN Len(w.config.dates) > 0
  ELSE IF w.step = 2 THEN localeCompare(w.config.startTime, w.config.endTime) < 0
  ELSE TRUE

\* handleSubmit(): onSubmit(config) when the name and the dates are there.
handleSubmit(w) ==
  IF w.config.name # <<>> /\ Len(w.config.dates) > 0
  THEN [w EXCEPT !.submitted = [name |-> w.config.name, dates |-> w.config.dates,
                                startTime |-> w.config.startTime,
                                endTime |-> w.config.endTime]]
  ELSE w

\* The input of the landing page, reachable while the modal is closed.
SetEventName(n) ==
  /\ wizard.pc = "live"
  /\ ~wizard.isOpen
  /\ n # wizard.initialName
  /\ wizard' = syncName([wizard EXCEPT !.initialName = n])
  /\ UNCHANGED <<storeVars, grid, rate, touch, page, dialog>>

\* handleCreateClick: setIsModalOpen(true)
HandleCreateClick ==
  /\ wizard.pc = "live"
  /\ ~wizard.isOpen
  /\ wizard' = [wizard EXCEPT !.isOpen = TRUE]
  /\ UNCHANGED <<storeVars, grid, rate, touch, page, dialog>>

\* onClose from the backdrop or the X button; the state of the modal stays.
OnClose ==
  /\ wizard.pc = "live"
  /\ wizard.isOpen
  /\ wizard' = [wizard EXCEPT !.isOpen = FALSE]
  /\ UNCHANGED <<storeVars, grid, rate, touch, page, dialog>>

\* The left footer button: step > 1 ? setStep(step - 1) : onClose()
Back ==
  /\ wizard.pc = "live"
  /\ wizard.isOpen
  /\ wizard' = IF wizard.step > 1 THEN [wizard EXCEPT !.step = @ - 1]
               ELSE [wizard EXCEPT !.isOpen = FALSE]
  /\ UNCHANGED <<storeVars, grid, rate, touch, page, dialog>>

\* The right footer button, disabled unless canProceed():
\* step < 3 ? setStep(step + 1) : handleSubmit()
Continue ==
  /\ wizard.pc = "live"
  /\ wizard.isOpen
  /\ canProceed(wizard)
  /\ wizard' = IF wizard.step < 3 THEN [wizard EXCEPT !.step = @ + 1]
               ELSE handleSubmit(wizard)
  /\ wizard' # wizard
  /\ UNCHANGED <<storeVars, grid, rate, touch, page, dialog>>

\* handleDatesChange(dates), from the calendar picker of step 1.
HandleDatesChange(dates) ==
  /\ wizard.pc = "live"
  /\ wizard.isOpen
  /\ wizard.step = 1
  /\ dates # wizard.config.dates
  /\ wizard' = [wizard EXCEPT !.config.dates = dates]
  /\ UNCHANGED <<storeVars, grid, rate, touch, page, dialog>>

\* The two selects of step 2.
SetStartTime(t) ==
  /\ wizard.pc = "live"
  /\ wizard.isOpen
  /\ wizard.step = 2
  /\ t # wizard.config.startTime
  /\ wizard' = [wizard EXCEPT !.config.startTime = t]
  /\ UNCHANGED <<storeVars, grid, rate, touch, page, dialog>>

SetEndTime(t) ==
  /\ wizard.pc = "live"
  /\ wizard.isOpen
  /\ wizard.step = 2
  /\ t # wizard.config.endTime
  /\ wizard' = [wizard EXCEPT !.config.endTime = t]
  /\ UNCHANGED <<storeVars, grid, rate, touch, page, dialog>>

\* The name options of step 3.
SetNameOption(o) ==
  /\ wizard.pc = "live"
  /\ wizard.isOpen
  /\ wizard.step = 3
  /\ o # wizard.config.nameOption
  /\ wizard' = [wizard EXCEPT !.config.nameOption = o]
  /\ UNCHANGED <<storeVars, grid, rate, touch, page, dialog>>

NextWizard ==
  \/ \E n \in WizardNames : SetEventName(n)
  \/ HandleCreateClick
  \/ OnClose
  \/ Back
  \/ Continue
  \/ \E dates \in WizardDates : HandleDatesChange(dates)
  \/ \E t \in TIME_OPTIONS : SetStartTime(t)
  \/ \E t \in TIME_OPTIONS : SetEndTime(t)
  \/ \E o \in NameOptions : SetNameOption(o)

SpecWizard == InitWizard /\ [][NextWizard]_vars

\* C29: step stays within 1..3, and a config passed to onSubmit has a
\* non-empty name, at least one date, and a start time before its end time.
C29_WizardSubmitsValidConfig ==
  wizard.pc = "live" =>
    /\ wizard.step \in 1..3
    /\ wizard.submitted # Null =>
         /\ wizard.submitted.name # <<>>
         /\ Len(wizard.submitted.dates) >= 1
         /\ Minutes(wizard.submitted.startTime) < Minutes(wizard.submitted.endTime)

\* A config was submitted, and afterwards the user went back to step 2 and
\* set an end time that is not after the start time.
C29_Witness ==
  /\ wizard.pc = "live"
  /\ wizard.submitted # Null
  /\ wizard.step = 2
  /\ Minutes(wizard.config.startTime) >= Minutes(wizard.config.endTime)

====
